---- MODULE Spec2Model ----
(***************************************************************************)
(* Model of the ring buffer of src/lib.rs: RingBuffer<T> with push, pop,   *)
(* the borrowing iterator RingBufferIterator and the consuming iterator    *)
(* ConsumingRingBufferIterator.                                            *)
(*                                                                         *)
(* Vec indices are 0-based in the source and 1-based here: the source's    *)
(* data[i] is data[i + 1] below.  A slot is an Option<T>: None is modelled *)
(* by 0 and Some(e) by the element e, a positive number.  Elements are     *)
(* moved into the buffer, so each pushed element is a distinct value: the  *)
(* k-th push of a run pushes k (as the tests push i).                      *)
(***************************************************************************)
EXTENDS Integers, Sequences, FiniteSets

VARIABLES ring, iter, pc, yielded, lastBorrow, hist

vars == <<ring, iter, pc, yielded, lastBorrow, hist>>

\* ---------------------------------------------------------------- bounds

\* Largest capacity passed to with_capacity.
MaxCapacity == 3

\* Largest number of push and pop calls made by the caller in one run.
MaxOps == 10

\* ------------------------------------------------------------- constants

\* Option::None in a slot or as a return value.
None == 0

\* lastBorrow when no borrowing iteration of the current contents has
\* completed (no Vec of elements contains None).
NoResult == <<None>>

\* ------------------------------------------------------ RingBuffer<T>

with_capacity(capacity) ==
    [data |-> <<>>, capacity |-> capacity, size |-> 0, start |-> 0, end |-> 0]

\* Mutant of next_start: the index advances without wrapping around.
next_start_no_wrap(rb) == [rb EXCEPT !.start = rb.start + 1]

next_start(rb) == [rb EXCEPT !.start = (rb.start + 1) % rb.capacity]

\* Mutant of next_end: the index advances without wrapping around.
next_end_no_wrap(rb) == [rb EXCEPT !.end = rb.end + 1]

next_end(rb) == [rb EXCEPT !.end = (rb.end + 1) % rb.capacity]

\* The outcome of a call: the buffer afterwards, the value returned and
\* whether the call panicked ("" when it did not).
Outcome(rb, ret, fatal) == [ring |-> rb, ret |-> ret, fatal |-> fatal]

\* Mutant of push_overwrite: the overwrite of a full buffer forgets to
\* advance start.
push_overwrite_no_evict(rb, element) ==
    IF rb.end >= Len(rb.data)
    THEN Outcome(rb, None, "index")
    ELSE Outcome(next_end([rb EXCEPT !.data[rb.end + 1] = element]), None, "")

\* Mutant of push_overwrite: every overwrite advances start, whether or
\* not end = start.
push_overwrite_always_evicts(rb, element) ==
    IF rb.end >= Len(rb.data)
    THEN Outcome(rb, None, "index")
    ELSE Outcome(next_end(next_start([rb EXCEPT !.data[rb.end + 1] = element])),
                 None, "")

\* push, the else branch: storage has grown to capacity slots.
push_overwrite(rb, element) ==
    IF rb.end >= Len(rb.data)
    THEN Outcome(rb, None, "index")
    ELSE LET r2 == [rb EXCEPT !.data[rb.end + 1] = element]
             r3 == IF r2.end = r2.start THEN next_start(r2) ELSE r2
         IN  Outcome(next_end(r3), None, "")

\* Mutant of push_store: size is raised on every push, full or not.
push_store_always_counts(rb, element) ==
    LET r1 == [rb EXCEPT !.size = rb.size + 1]
    IN  IF Len(r1.data) < r1.capacity
        THEN Outcome(next_end([r1 EXCEPT !.data = Append(r1.data, element)]),
                     None, "")
        ELSE push_overwrite(r1, element)

\* Mutant of push_store: storage is appended to while its length is at
\* most capacity (<= for <).
push_store_grows_past(rb, element) ==
    LET r1 == IF rb.size < rb.capacity
              THEN [rb EXCEPT !.size = rb.size + 1]
              ELSE rb
    IN  IF Len(r1.data) <= r1.capacity
        THEN Outcome(next_end([r1 EXCEPT !.data = Append(r1.data, element)]),
                     None, "")
        ELSE push_overwrite(r1, element)

\* push after the capacity check: count the element, then append or
\* overwrite.
push_store(rb, element) ==
    LET r1 == IF rb.size < rb.capacity
              THEN [rb EXCEPT !.size = rb.size + 1]
              ELSE rb
    IN  IF Len(r1.data) < r1.capacity
        THEN Outcome(next_end([r1 EXCEPT !.data = Append(r1.data, element)]),
                     None, "")
        ELSE push_overwrite(r1, element)

\* Mutant of push: a push on a zero-capacity buffer silently does nothing.
push_zero_noop(rb, element) ==
    IF rb.capacity = 0
    THEN Outcome(rb, None, "")
    ELSE push_store(rb, element)

push(rb, element) ==
    IF rb.capacity = 0
    THEN Outcome(rb, None, "zero_capacity")
    ELSE push_store(rb, element)

\* Mutant of pop_take: the index is captured after start has advanced.
pop_take_after_advance(rb) ==
    LET r1 == [rb EXCEPT !.size = rb.size - 1]
        r2 == next_start(r1)
        position == r2.start
    IN  IF position >= Len(r2.data)
        THEN Outcome(r2, None, "index")
        ELSE Outcome([r2 EXCEPT !.data[position + 1] = None],
                     r2.data[position + 1], "")

\* Mutant of pop_take: the element is copied out and the slot keeps it.
pop_take_leaves_slot(rb) ==
    LET r1 == [rb EXCEPT !.size = rb.size - 1]
        position == r1.start
        r2 == next_start(r1)
    IN  IF position >= Len(r2.data)
        THEN Outcome(r2, None, "index")
        ELSE Outcome(r2, r2.data[position + 1], "")

\* Mutant of pop_take: size is not lowered.
pop_take_keeps_size(rb) ==
    LET position == rb.start
        r2 == next_start(rb)
    IN  IF position >= Len(r2.data)
        THEN Outcome(r2, None, "index")
        ELSE Outcome([r2 EXCEPT !.data[position + 1] = None],
                     r2.data[position + 1], "")

\* pop, the else branch: the buffer holds at least one element.
pop_take(rb) ==
    LET r1 == [rb EXCEPT !.size = rb.size - 1]
        position == r1.start
        r2 == next_start(r1)
    IN  IF position >= Len(r2.data)
        THEN Outcome(r2, None, "index")
        ELSE Outcome([r2 EXCEPT !.data[position + 1] = None],
                     r2.data[position + 1], "")

\* Mutant of pop: pop on an empty buffer still advances start.
pop_empty_advances(rb) ==
    IF rb.size = 0
    THEN Outcome(IF rb.capacity = 0 THEN rb ELSE next_start(rb), None, "")
    ELSE pop_take(rb)

pop(rb) ==
    IF rb.size = 0
    THEN Outcome(rb, None, "")
    ELSE pop_take(rb)

\* ------------------------------------------------- RingBufferIterator

\* Mutant of into_iter_ref: the cursor starts at slot 0, not at start.
into_iter_ref_from_zero(rb) == [size |-> rb.size, position |-> 0]

into_iter_ref(rb) == [size |-> rb.size, position |-> rb.start]

\* RingBufferIterator::next: the iterator afterwards, the item (None at the
\* end) and the panic, if any, of the index or of unwrap.
iter_next(it, rb) ==
    IF it.size = 0
    THEN [iter |-> it, ret |-> None, fatal |-> ""]
    ELSE LET i1 == [it EXCEPT !.size = it.size - 1]
         IN  IF i1.position >= Len(rb.data)
             THEN [iter |-> i1, ret |-> None, fatal |-> "index"]
             ELSE IF rb.data[i1.position + 1] = None
                  THEN [iter |-> i1, ret |-> None, fatal |-> "unwrap"]
                  ELSE [iter |-> [i1 EXCEPT !.position = (i1.position + 1) % rb.capacity],
                        ret |-> rb.data[i1.position + 1], fatal |-> ""]

\* ------------------------------------------------------------ history

\* One call of push or pop as the caller saw it: the argument (None for
\* pop), the value returned, the panic and the buffer before the call.
Call(op, arg, out, pre) ==
    [op |-> op, arg |-> arg, ret |-> out.ret, fatal |-> out.fatal, pre |-> pre]

\* The element a push moves in: the number of pushes so far plus one.
NextElement == Cardinality({i \in 1..Len(hist) : hist[i].op = "push"}) + 1

PcOf(fatal) == IF fatal = "" THEN "idle" ELSE "panicked"

\* ------------------------------------------------------------- actions

Init ==
    /\ ring \in {with_capacity(c) : c \in 0..MaxCapacity}
    /\ iter = [size |-> 0, position |-> 0]
    /\ pc = "idle"
    /\ yielded = <<>>
    /\ lastBorrow = NoResult
    /\ hist = <<>>

\* buffer.push(element)
Push ==
    /\ pc = "idle"
    /\ Len(hist) < MaxOps
    /\ \E element \in {NextElement} :
         LET out == push(ring, element)
         IN  /\ ring' = out.ring
             /\ pc' = PcOf(out.fatal)
             /\ hist' = Append(hist, Call("push", element, out, ring))
    /\ yielded' = <<>>
    /\ lastBorrow' = NoResult
    /\ UNCHANGED iter

\* buffer.pop()
Pop ==
    /\ pc = "idle"
    /\ Len(hist) < MaxOps
    /\ LET out == pop(ring)
       IN  /\ ring' = out.ring
           /\ pc' = PcOf(out.fatal)
           /\ hist' = Append(hist, Call("pop", None, out, ring))
    /\ yielded' = <<>>
    /\ lastBorrow' = NoResult
    /\ UNCHANGED iter

\* (&buffer).into_iter(): the buffer is borrowed until the iterator ends.
BorrowIntoIter ==
    /\ pc = "idle"
    /\ iter' = into_iter_ref(ring)
    /\ pc' = "borrowed"
    /\ yielded' = <<>>
    /\ UNCHANGED <<ring, lastBorrow, hist>>

\* One next() of the borrowing iterator inside collect(): an item is
\* appended, None ends the iteration and releases the borrow.
BorrowNext ==
    /\ pc = "borrowed"
    /\ LET out == iter_next(iter, ring)
       IN  /\ iter' = out.iter
           /\ IF out.fatal # ""
              THEN /\ pc' = "panicked"
                   /\ UNCHANGED <<yielded, lastBorrow>>
              ELSE IF out.ret = None
                   THEN /\ pc' = "idle"
                        /\ lastBorrow' = yielded
                        /\ UNCHANGED yielded
                   ELSE /\ pc' = "borrowed"
                        /\ yielded' = Append(yielded, out.ret)
                        /\ UNCHANGED lastBorrow
    /\ UNCHANGED <<ring, hist>>

\* buffer.into_iter(): the buffer is moved into the consuming iterator.
ConsumeIntoIter ==
    /\ pc = "idle"
    /\ pc' = "consuming"
    /\ yielded' = <<>>
    /\ UNCHANGED <<ring, iter, lastBorrow, hist>>

\* One next() of the consuming iterator inside collect(): self.ring.pop();
\* None ends the iteration and the iterator is dropped with its buffer.
ConsumeNext ==
    /\ pc = "consuming"
    /\ LET out == pop(ring)
       IN  /\ ring' = out.ring
           /\ hist' = Append(hist, Call("pop", None, out, ring))
           /\ IF out.fatal # ""
              THEN /\ pc' = "panicked"
                   /\ UNCHANGED yielded
              ELSE IF out.ret = None
                   THEN /\ pc' = "dropped"
                        /\ UNCHANGED yielded
                   ELSE /\ pc' = "consuming"
                        /\ yielded' = Append(yielded, out.ret)
    /\ UNCHANGED <<iter, lastBorrow>>

Next ==
    \/ Push
    \/ Pop
    \/ BorrowIntoIter
    \/ BorrowNext
    \/ ConsumeIntoIter
    \/ ConsumeNext

Spec == Init /\ [][Next]_vars

\* ---------------------------------------------- reading the history

Min(a, b) == IF a < b THEN a ELSE b

\* Calls i .. i+n-1 of the history are all calls of op.
Run(op, i, n) ==
    /\ i + n - 1 <= Len(hist)
    /\ \A j \in i..(i + n - 1) : hist[j].op = op

\* Call i returned ret without a panic.
Returned(i, ret) == hist[i].fatal = "" /\ hist[i].ret = ret

\* The buffer as call i left it.
After(i) == IF i < Len(hist) THEN hist[i + 1].pre ELSE ring

\* The elements pushed and not yet popped or evicted after the first n
\* calls, oldest first: what a FIFO of the buffer's capacity that evicts
\* its oldest element when full holds.
RECURSIVE LiveAt(_)
LiveAt(n) ==
    IF n = 0
    THEN <<>>
    ELSE LET q == LiveAt(n - 1)
             c == hist[n]
         IN  IF c.fatal # ""
             THEN q
             ELSE IF c.op = "push"
                  THEN IF Len(q) = c.pre.capacity
                       THEN Append(Tail(q), c.arg)
                       ELSE Append(q, c.arg)
                  ELSE IF q = <<>> THEN q ELSE Tail(q)

\* The last n elements of sequence s.
LastN(s, n) == SubSeq(s, Len(s) - n + 1, Len(s))

\* Sequence p is a prefix of sequence s.
IsPrefix(p, s) == Len(p) <= Len(s) /\ p = SubSeq(s, 1, Len(p))

\* Slot k (0-based) of the run of size slots that begins at start.
SlotIndex(rb, k) == ((rb.start + k) % rb.capacity) + 1

\* Every slot of the run exists and is occupied.
RunOccupied(rb) ==
    \A k \in 0..(rb.size - 1) :
        SlotIndex(rb, k) <= Len(rb.data) /\ rb.data[SlotIndex(rb, k)] # None

\* The slots of the run, read from start.
RunContents(rb) == [k \in 1..rb.size |-> rb.data[SlotIndex(rb, k - 1)]]

\* ---------------------------------------------------------------- C1

\* C1: on a fresh buffer of capacity c > 0, after n pushes and no pop,
\* borrowing iteration does not panic and yields exactly the last
\* min(n, c) pushed elements, oldest first (a running iteration has
\* yielded a prefix of them).
C1_PushThenIterate ==
    (ring.capacity > 0 /\ Run("push", 1, Len(hist))) =>
        LET pushed == [i \in 1..Len(hist) |-> hist[i].arg]
            expect == LastN(pushed, Min(Len(hist), ring.capacity))
        IN  /\ pc # "panicked"
            /\ lastBorrow # NoResult => lastBorrow = expect
            /\ pc = "borrowed" => IsPrefix(yielded, expect)

\* More pushes than a capacity of at least 2, no pop, iteration complete.
C1_Witness ==
    /\ ring.capacity >= 2
    /\ Len(hist) > ring.capacity
    /\ Run("push", 1, Len(hist))
    /\ pc = "idle"
    /\ lastBorrow # NoResult
    /\ Len(lastBorrow) = ring.capacity

\* ---------------------------------------------------------------- C2

\* C2: in every state reached by pushes and pops on a buffer of capacity
\* > 0, end = (start + size) mod capacity, the size slots from start are
\* occupied, and read in order they hold the elements pushed and not yet
\* popped or evicted, oldest first.
C2_ContiguousRun ==
    (ring.capacity > 0 /\ pc # "panicked") =>
        /\ ring.end = (ring.start + ring.size) % ring.capacity
        /\ RunOccupied(ring)
        /\ RunContents(ring) = LiveAt(Len(hist))

\* ---------------------------------------------------------------- C3

\* C3: whenever the buffer is empty, pushing k <= capacity elements and
\* then popping returns those elements in push order: the m-th pop after
\* the k pushes returns the m-th of them.
C3_RoundTrip ==
    \A i \in 1..Len(hist) : \A k \in 1..ring.capacity :
        (hist[i].pre.size = 0 /\ Run("push", i, k)) =>
            \A m \in 1..k :
                Run("pop", i + k, m) => Returned(i + k + m - 1, hist[i + m - 1].arg)

\* ---------------------------------------------------------------- C4

\* C4: a pop with size > 0 returns a present element, the oldest one
\* pushed and not yet popped or evicted, lowers size by one and leaves the
\* slot it read empty; pop returns None only when size = 0.
C4_PopReturnsOldest ==
    \A i \in 1..Len(hist) :
        (hist[i].op = "pop" /\ hist[i].pre.size > 0) =>
            /\ hist[i].fatal = ""
            /\ hist[i].ret # None
            /\ LiveAt(i - 1) # <<>> /\ hist[i].ret = Head(LiveAt(i - 1))
            /\ After(i).size = hist[i].pre.size - 1
            /\ After(i).data[hist[i].pre.start + 1] = None

\* ---------------------------------------------------------------- C5

\* C5: on a buffer of capacity > 0 no push and no borrowing iteration
\* panics: every slot the iterator visits is occupied, and a completed
\* iteration has yielded exactly size elements.
C5_NoFatal ==
    ring.capacity > 0 =>
        /\ pc # "panicked"
        /\ \A i \in 1..Len(hist) : hist[i].fatal = ""
        /\ RunOccupied(ring)
        /\ (pc = "idle" /\ lastBorrow # NoResult) => Len(lastBorrow) = ring.size

\* ---------------------------------------------------------------- C6

\* C6: a pop on a buffer with size = 0 returns None without a panic and
\* leaves size, start, end and every slot as they were, for any capacity
\* (0 included), fresh or emptied by pops.
C6_PopEmptyNoChange ==
    \A i \in 1..Len(hist) :
        (hist[i].op = "pop" /\ hist[i].pre.size = 0) =>
            /\ hist[i].ret = None
            /\ hist[i].fatal = ""
            /\ After(i) = hist[i].pre

\* A pop on a buffer that pushes filled and pops emptied.
C6_Witness ==
    \E i \in 2..Len(hist) :
        /\ hist[i].op = "pop"
        /\ hist[i].pre.size = 0
        /\ Len(hist[i].pre.data) = hist[i].pre.capacity
        /\ hist[i].pre.capacity >= 2
        /\ hist[i].pre.start # 0
        /\ hist[i - 1].op = "pop"

\* ---------------------------------------------------------------- C7

\* C7: with_capacity(0) gives an empty buffer; every push on it panics
\* and leaves size, start, end and storage unchanged; a push on a buffer
\* of capacity > 0 never panics.
C7_ZeroCapacityPush ==
    /\ hist = <<>> => ring = with_capacity(ring.capacity)
    /\ \A i \in 1..Len(hist) :
           hist[i].op = "push" =>
               IF hist[i].pre.capacity = 0
               THEN hist[i].fatal = "zero_capacity" /\ After(i) = hist[i].pre
               ELSE hist[i].fatal = ""

\* A push on a zero-capacity buffer, made after a pop, has panicked.
C7_Witness ==
    /\ ring.capacity = 0
    /\ Len(hist) = 2
    /\ hist[1].op = "pop"
    /\ hist[2].op = "push"
    /\ pc = "panicked"

\* ---------------------------------------------------------------- C8

\* C8: on a fresh buffer of capacity c > 0, k <= c pushes followed by
\* pops: the m-th pop returns the m-th pushed element, and pop k + 1
\* returns None.
C8_FreshFifo ==
    \A k \in 1..ring.capacity :
        Run("push", 1, k) =>
            \A m \in 1..(k + 1) :
                Run("pop", k + 1, m) =>
                    Returned(k + m, IF m <= k THEN hist[m].arg ELSE None)

\* A fresh buffer of capacity >= 2 filled to capacity and popped
\* capacity + 1 times.
C8_Witness ==
    /\ ring.capacity >= 2
    /\ Len(hist) = 2 * ring.capacity + 1
    /\ Run("push", 1, ring.capacity)
    /\ Run("pop", ring.capacity + 1, ring.capacity + 1)

\* ---------------------------------------------------------------- C9

\* C9: from any reachable state of a buffer of capacity c > 0, after
\* n >= c pushes in a row the buffer is full, the next c pops return the
\* last c pushed elements, oldest first, and the pop after them returns
\* None.
C9_OverfillThenPop ==
    \A i \in 1..Len(hist) : \A n \in ring.capacity..(Len(hist) - i + 1) :
        (ring.capacity > 0 /\ Run("push", i, n)) =>
            /\ After(i + n - 1).size = ring.capacity
            /\ \A m \in 1..(ring.capacity + 1) :
                   Run("pop", i + n, m) =>
                       Returned(i + n + m - 1,
                                IF m <= ring.capacity
                                THEN hist[i + n - ring.capacity + m - 1].arg
                                ELSE None)

\* Capacity pushes in a row that begin in a state whose slot at start is
\* empty although size > 0, followed by capacity + 1 pops.
C9_Witness ==
    \E i \in 1..Len(hist) :
        /\ ring.capacity >= 2
        /\ hist[i].pre.size > 0
        /\ hist[i].pre.data[hist[i].pre.start + 1] = None
        /\ Run("push", i, ring.capacity)
        /\ Run("pop", i + ring.capacity, ring.capacity + 1)
        /\ Len(hist) = i + 2 * ring.capacity

\* --------------------------------------------------------------- C10

\* C10: consuming iteration yields size elements, the sequence borrowing
\* iteration yields in the same state and the values the pops return, and
\* when it ends the buffer has size 0 and no occupied slot.
C10_ConsumeLikeBorrow ==
    pc = "dropped" =>
        LET first == Len(hist) - Len(yielded)
        IN  /\ Len(yielded) = hist[first].pre.size
            /\ yielded = [m \in 1..Len(yielded) |-> hist[first + m - 1].ret]
            /\ lastBorrow # NoResult => yielded = lastBorrow
            /\ ring.size = 0
            /\ \A j \in 1..Len(ring.data) : ring.data[j] = None

\* --------------------------------------------------------------- C11

\* A live borrowing iterator has yielded Len(yielded) of the size elements
\* and its cursor is that many slots past the buffer's start.
BorrowCursorFromStart ==
    pc = "borrowed" =>
        /\ iter.size + Len(yielded) = ring.size
        /\ iter.position = IF ring.capacity = 0
                           THEN 0
                           ELSE (ring.start + Len(yielded)) % ring.capacity

\* C11: borrowing iteration is read-only and restartable: each iterator
\* starts from the buffer's current start and size, no step of it changes
\* size, start, end or a slot, and an iteration that completes after an
\* earlier one over the unmodified buffer yields the same sequence.
C11_BorrowRestartable ==
    /\ []BorrowCursorFromStart
    /\ [][pc = "borrowed" => ring' = ring]_vars
    /\ [][(pc = "borrowed" /\ pc' = "idle" /\ lastBorrow # NoResult) =>
              lastBorrow' = lastBorrow]_vars

\* A second borrowing iteration over an unmodified, wrapped buffer has
\* yielded everything the first one did and is about to end.
C11_Witness ==
    /\ pc = "borrowed"
    /\ lastBorrow # NoResult
    /\ iter.size = 0
    /\ Len(yielded) >= 2
    /\ yielded = lastBorrow
    /\ ring.start + ring.size > ring.capacity

\* ------------------------------------------------ reading the storage

\* The elements held in the occupied slots of the buffer.
Stored(rb) == {rb.data[j] : j \in 1..Len(rb.data)} \ {None}

\* The number of occupied slots of the buffer.
Occupied(rb) == Cardinality({j \in 1..Len(rb.data) : rb.data[j] # None})

\* Every buffer of the run so far: before each call, and now.
Buffers == {hist[i].pre : i \in 1..Len(hist)} \cup {ring}

\* --------------------------------------------------------------- C12

\* C12: in every reachable state 0 <= size <= capacity.
C12_SizeBounded == 0 <= ring.size /\ ring.size <= ring.capacity

\* A push made on a full buffer of capacity >= 2 has left it full, and a
\* pop made on an empty buffer came before it.
C12_Witness ==
    /\ ring.capacity >= 2
    /\ ring.size = ring.capacity
    /\ Len(hist) > ring.capacity
    /\ hist[Len(hist)].op = "push"
    /\ hist[Len(hist)].pre.size = ring.capacity
    /\ hist[1].op = "pop"

\* --------------------------------------------------------------- C13

\* C13: in every reachable state size equals the number of occupied slots.
C13_SizeCountsOccupied == pc # "panicked" => ring.size = Occupied(ring)

\* --------------------------------------------------------------- C14

\* C14: when size = capacity > 0, start = end, the slot at start holds the
\* oldest element of the buffer (the earliest pushed of those stored, the
\* head of the live elements), and the next push evicts exactly it.
C14_FullMeansStartIsEnd ==
    /\ (ring.capacity > 0 /\ ring.size = ring.capacity) =>
           /\ ring.start = ring.end
           /\ ring.start < Len(ring.data)
           /\ ring.data[ring.start + 1] # None
           /\ \A e \in Stored(ring) : ring.data[ring.start + 1] <= e
           /\ ring.data[ring.start + 1] = Head(LiveAt(Len(hist)))
    /\ \A i \in 1..Len(hist) :
           (hist[i].op = "push" /\ hist[i].pre.capacity > 0
               /\ hist[i].pre.size = hist[i].pre.capacity) =>
               /\ hist[i].fatal = ""
               /\ Stored(hist[i].pre) \ Stored(After(i))
                      = {hist[i].pre.data[hist[i].pre.start + 1]}
               /\ After(i).start = (hist[i].pre.start + 1) % hist[i].pre.capacity

\* A push on a full buffer of capacity >= 2 whose start had wrapped has
\* evicted the oldest element, after an earlier pop.
C14_Witness ==
    /\ ring.capacity >= 2
    /\ ring.size = ring.capacity
    /\ Len(hist) > 0
    /\ hist[Len(hist)].op = "push"
    /\ hist[Len(hist)].pre.size = ring.capacity
    /\ hist[Len(hist)].pre.start = ring.capacity - 1
    /\ \E j \in 1..Len(hist) : hist[j].op = "pop" /\ hist[j].ret # None

\* --------------------------------------------------------------- C15

\* C15: a push that overwrites with end = start was made on a full buffer
\* and overwrites the oldest stored element; a push made while
\* size < capacity leaves start unchanged.
C15_StartMovesOnlyOnEviction ==
    \A i \in 1..Len(hist) :
        (hist[i].op = "push" /\ hist[i].pre.capacity > 0) =>
            LET b == hist[i].pre
            IN  /\ (Len(b.data) = b.capacity /\ b.end = b.start) =>
                       /\ b.size = b.capacity
                       /\ b.data[b.end + 1] # None
                       /\ \A e \in Stored(b) : b.data[b.end + 1] <= e
                /\ b.size < b.capacity => After(i).start = b.start

\* --------------------------------------------------------------- C16

\* C16: an element leaves storage only as the value a pop returns or by
\* the overwrite of a push made on a full buffer: a push made while
\* size < capacity overwrites no occupied slot, and a pop made with
\* size > 0 returns an element and does not leave the oldest live element
\* behind in storage.
C16_ElementsLeaveByPopOrEviction ==
    \A i \in 1..Len(hist) :
        LET b == hist[i].pre
            gone == Stored(b) \ Stored(After(i))
        IN  IF hist[i].op = "push"
            THEN b.size < b.capacity => gone = {}
            ELSE /\ gone \subseteq {hist[i].ret}
                 /\ b.size > 0 =>
                        /\ hist[i].ret # None
                        /\ LiveAt(i - 1) # <<>>
                        /\ Head(LiveAt(i - 1)) \notin Stored(After(i))

\* --------------------------------------------------------------- C17

\* C17: for capacity > 0 a push raises size by one below capacity and
\* leaves it at capacity; a pop lowers size by one above zero and leaves
\* it at zero; so capacity pushes in a row end FULL and capacity pops in a
\* row end EMPTY.
C17_SizeStateMachine ==
    \A i \in 1..Len(hist) :
        LET b == hist[i].pre
        IN  b.capacity > 0 =>
                /\ hist[i].fatal = ""
                /\ hist[i].op = "push" =>
                       After(i).size = IF b.size < b.capacity
                                       THEN b.size + 1
                                       ELSE b.capacity
                /\ hist[i].op = "pop" =>
                       After(i).size = IF b.size > 0 THEN b.size - 1 ELSE 0
                /\ Run("push", i, b.capacity) =>
                       After(i + b.capacity - 1).size = b.capacity
                /\ Run("pop", i, b.capacity) =>
                       After(i + b.capacity - 1).size = 0

\* From EMPTY, capacity >= 2 pushes in a row reached FULL and capacity pops
\* in a row came back to EMPTY, after earlier calls.
C17_Witness ==
    \E i \in 2..Len(hist) :
        /\ ring.capacity >= 2
        /\ hist[i].pre.size = 0
        /\ Run("push", i, ring.capacity)
        /\ Run("pop", i + ring.capacity, ring.capacity)
        /\ Len(hist) = i + 2 * ring.capacity - 1
        /\ hist[i + ring.capacity].pre.size = ring.capacity
        /\ ring.size = 0

\* --------------------------------------------------------------- C18

\* C18: for capacity > 0, start and end stay in 0..capacity-1; a push sets
\* end to (end + 1) mod capacity and moves start by at most one position;
\* a pop leaves end alone, and with size > 0 sets start to
\* (start + 1) mod capacity and empties the slot at the old start (with
\* size = 0 it leaves start alone).
C18_IndexFrame ==
    /\ \A b \in Buffers :
           b.capacity > 0 =>
               b.start \in 0..(b.capacity - 1) /\ b.end \in 0..(b.capacity - 1)
    /\ \A i \in 1..Len(hist) :
           LET b == hist[i].pre
               a == After(i)
           IN  b.capacity > 0 =>
                   /\ hist[i].fatal = ""
                   /\ hist[i].op = "push" =>
                          /\ a.end = (b.end + 1) % b.capacity
                          /\ a.start \in {b.start, (b.start + 1) % b.capacity}
                   /\ hist[i].op = "pop" =>
                          /\ a.end = b.end
                          /\ a.start = IF b.size > 0
                                       THEN (b.start + 1) % b.capacity
                                       ELSE b.start
                          /\ b.size > 0 => a.data[b.start + 1] = None

\* A pop has wrapped start from capacity - 1 to 0 and a push has wrapped
\* end from capacity - 1 to 0, capacity >= 2.
C18_Witness ==
    /\ ring.capacity >= 2
    /\ \E i \in 1..Len(hist) :
           /\ hist[i].op = "pop"
           /\ hist[i].pre.size > 0
           /\ hist[i].pre.start = ring.capacity - 1
           /\ After(i).start = 0
    /\ \E i \in 1..Len(hist) :
           /\ hist[i].op = "push"
           /\ hist[i].pre.end = ring.capacity - 1
           /\ After(i).end = 0

\* --------------------------------------------------------------- C19

\* The calls of pop that returned an element, in call order.
PresentPops == {i \in 1..Len(hist) : hist[i].op = "pop" /\ hist[i].ret # None}

\* C19: the elements pop returns form a subsequence of the pushed
\* elements: each was pushed before the pop that returns it, none is
\* returned twice, and a later pushed element never comes before an
\* earlier pushed one (elements are numbered in push order).
C19_PopsSubsequenceOfPushes ==
    /\ \A i \in PresentPops :
           \E j \in 1..(i - 1) : hist[j].op = "push" /\ hist[j].arg = hist[i].ret
    /\ \A i, j \in PresentPops : i < j => hist[i].ret < hist[j].ret

\* Pops returned at least three elements, and one of them came after a
\* pop that returned None although size was above zero.
C19_Witness ==
    /\ Cardinality(PresentPops) >= 3
    /\ \E k \in 1..Len(hist) : \E j \in PresentPops :
           /\ k < j
           /\ hist[k].op = "pop"
           /\ hist[k].pre.size > 0
           /\ hist[k].ret = None

\* --------------------------------------------------------------- C20

\* C20: storage never exceeds capacity and never shrinks; a pop leaves its
\* length alone; a push lengthens it by one exactly when it is below
\* capacity, and then stores the element at the index end had before the
\* push; while the length is below capacity end equals the length; the
\* overwrite branch never indexes out of bounds.
C20_StorageGrowth ==
    /\ \A b \in Buffers :
           /\ Len(b.data) <= b.capacity
           /\ Len(b.data) < b.capacity => b.end = Len(b.data)
    /\ \A i \in 1..Len(hist) :
           LET b == hist[i].pre
               a == After(i)
           IN  /\ hist[i].fatal # "index"
               /\ hist[i].op = "pop" => Len(a.data) = Len(b.data)
               /\ hist[i].op = "push" =>
                      IF Len(b.data) < b.capacity
                      THEN /\ Len(a.data) = Len(b.data) + 1
                           /\ a.data[b.end + 1] = hist[i].arg
                      ELSE Len(a.data) = Len(b.data)

\* The push that grew storage to a capacity >= 2 was made after a pop,
\* and a later push overwrote a slot.
C20_Witness ==
    /\ ring.capacity >= 2
    /\ \E i \in 2..Len(hist) :
           /\ hist[i].op = "push"
           /\ Len(hist[i].pre.data) = ring.capacity - 1
           /\ hist[i].pre.start > 0
    /\ hist[Len(hist)].op = "push"
    /\ Len(hist[Len(hist)].pre.data) = ring.capacity

====
